---- MODULE Spec2Model ----
(***************************************************************************)
(* A model of Source/BatchModuleCreation.py: the dependency merge          *)
(* (_dedupe_preserve_order), the table validation (validate_definitions),  *)
(* the manifest upsert (upsert_uplugin_modules), the file writer           *)
(* (write_module_files) and the orchestrator (main).                       *)
(*                                                                         *)
(* Three specifications share the variables:                               *)
(*   SpecMerge   one call of the dependency merge on drawn lists,          *)
(*   SpecUpsert  one call of upsert_uplugin_modules on a drawn manifest    *)
(*               and a drawn list of new entries,                          *)
(*   Spec        main(), step by step; after a run that succeeded it is    *)
(*               run once more on the disk that run left.                  *)
(*                                                                         *)
(* Python values: a str is a TLA+ string, a list a sequence, a dict a      *)
(* function from its keys, a value whose type validation inspects a record *)
(* [t |-> type name, v |-> value].  A dict's key order is not modelled.    *)
(***************************************************************************)
EXTENDS Integers, Sequences, FiniteSets, TLC

VARIABLES
    pc,                 \* position of the running call
    defaults,           \* SpecMerge: the default dependency list
    specific,           \* SpecMerge: the module's own dependency list
    merged,             \* SpecMerge: the result of the merge
    uplugin_in,         \* SpecUpsert: the manifest as it was passed
    uplugin,            \* the manifest in memory (SpecUpsert, Spec)
    module_entries,     \* the new entries (module_entries_for_uplugin in main)
    defs,               \* Spec: OUTPUT_MODULE_DEFINITIONS, in dict order
    i,                  \* Spec: index of the table entry the loop is at
    error,              \* the exception that ended the call, or NoError
    source_exists,      \* Spec: whether the source root exists
    disk_uplugin,       \* Spec: the manifest file: absent, unparsable, or its JSON
    dirs,               \* Spec: directories created under the source root
    files,              \* Spec: files under the source root, path -> text
    run,                \* Spec: "first" or "second" run
    start_disk_uplugin, \* Spec: the manifest file when this run started
    start_files,        \* Spec: the files when this run started
    start_dirs,         \* Spec: the directories when this run started
    manifest_writes     \* Spec: times this run opened the manifest for writing

vars == <<pc, defaults, specific, merged, uplugin_in, uplugin, module_entries,
          defs, i, error, source_exists, disk_uplugin, dirs, files, run,
          start_disk_uplugin, start_files, start_dirs,
          manifest_writes>>

(***************************************************************************)
(* Bounds of the model.                                                    *)
(***************************************************************************)
MaxDeps == 3        \* longest default / specific dependency list drawn
MaxExisting == 3    \* most entries of a drawn manifest (SpecUpsert)
MaxNew == 2         \* most new entries drawn (SpecUpsert)
MaxModules == 2     \* most entries of a drawn definition table (Spec)
MaxManifest == 2    \* most entries of the manifest file drawn (Spec)

SeqsUpTo(S, n) == UNION { [1..k -> S] : k \in 0..n }

(***************************************************************************)
(* Python str: comparison and endswith work on the characters, which TLC   *)
(* cannot read off a string, so the strings used as names are spelled out. *)
(***************************************************************************)
Chars(s) ==
    CASE s = ""        -> <<>>
      [] s = "A"       -> <<"A">>
      [] s = "AEditor" -> <<"A", "E", "d", "i", "t", "o", "r">>
      [] s = "Aeditor" -> <<"A", "e", "d", "i", "t", "o", "r">>
      [] s = "B"       -> <<"B">>
      [] s = "C"       -> <<"C">>
      [] s = "Editor"  -> <<"E", "d", "i", "t", "o", "r">>
      [] s = "EditorB" -> <<"E", "d", "i", "t", "o", "r", "B">>

\* ord(c) of the characters above
CodePoint(c) ==
    CASE c = "A" -> 65  [] c = "B" -> 66  [] c = "C" -> 67  [] c = "E" -> 69
      [] c = "d" -> 100 [] c = "e" -> 101 [] c = "i" -> 105 [] c = "o" -> 111
      [] c = "r" -> 114 [] c = "t" -> 116

\* a < b on two str: the first differing character decides, a proper prefix is less
RECURSIVE SeqLess(_, _)
SeqLess(a, b) ==
    IF b = <<>> THEN FALSE
    ELSE IF a = <<>> THEN TRUE
    ELSE IF CodePoint(Head(a)) # CodePoint(Head(b))
         THEN CodePoint(Head(a)) < CodePoint(Head(b))
    ELSE SeqLess(Tail(a), Tail(b))

StrLess(a, b) == SeqLess(Chars(a), Chars(b))

\* s.endswith(suffix)
EndsWith(s, suffix) ==
    LET c == Chars(s)
        x == Chars(suffix)
    IN  /\ Len(c) >= Len(x)
        /\ SubSeq(c, Len(c) - Len(x) + 1, Len(c)) = x

(***************************************************************************)
(* _dedupe_preserve_order                                                  *)
(***************************************************************************)
RECURSIVE DedupeLoop(_, _, _)
DedupeLoop(items, seen, out) ==
    IF items = <<>> THEN out
    ELSE LET x == Head(items)
         IN  IF x # "" /\ x \notin seen
             THEN DedupeLoop(Tail(items), seen \cup {x}, Append(out, x))
             ELSE DedupeLoop(Tail(items), seen, out)

\* a slip: the truthiness test of x dropped
RECURSIVE DedupeLoopKeepsEmpty(_, _, _)
DedupeLoopKeepsEmpty(items, seen, out) ==
    IF items = <<>> THEN out
    ELSE LET x == Head(items)
         IN  IF x \notin seen
             THEN DedupeLoopKeepsEmpty(Tail(items), seen \cup {x}, Append(out, x))
             ELSE DedupeLoopKeepsEmpty(Tail(items), seen, out)

dedupe_keeps_empty(items) == DedupeLoopKeepsEmpty(items, {}, <<>>)

_dedupe_preserve_order(items) == DedupeLoop(items, {}, <<>>)

(***************************************************************************)
(* upsert_uplugin_modules                                                  *)
(***************************************************************************)
NoError == [type |-> "", module |-> "", field |-> ""]

\* a slip: update replaces the entry instead of merging into it
dict_update_replaces(d, new) == new

\* dict.update: d[k] = new[k] for every key of new, the other keys stay
dict_update(d, new) ==
    [k \in DOMAIN d \cup DOMAIN new |-> IF k \in DOMAIN new THEN new[k] ELSE d[k]]

\* the loop filling by_name: name -> the entry of existing (by its index);
\* a later entry of the same Name replaces an earlier one
RECURSIVE IndexByName(_, _, _)
IndexByName(existing, k, by_name) ==
    IF k > Len(existing) THEN by_name
    ELSE IF "Name" \in DOMAIN existing[k]
         THEN IndexByName(existing, k + 1, (existing[k]["Name"] :> k) @@ by_name)
         ELSE IndexByName(existing, k + 1, by_name)

\* a slip: every new entry appended, none merged
UpsertLoopAppendsAll(existing, by_name, entries) == existing \o entries

\* the "Upsert" loop: merge into the indexed entry, or append
RECURSIVE UpsertLoop(_, _, _)
UpsertLoop(existing, by_name, entries) ==
    IF entries = <<>> THEN existing
    ELSE LET new_m == Head(entries)
             name  == new_m["Name"]
         IN  IF name \in DOMAIN by_name
             THEN UpsertLoop([existing EXCEPT ![by_name[name]] = dict_update(@, new_m)],
                             by_name, Tail(entries))
             ELSE UpsertLoop(Append(existing, new_m), by_name, Tail(entries))

\* key=lambda x: x.get("Name", "")
SortKey(x) == IF "Name" \in DOMAIN x THEN x["Name"] ELSE ""

\* put x behind every element whose key is not greater than its own
RECURSIVE InsertSorted(_, _)
InsertSorted(sorted, x) ==
    IF sorted = <<>> THEN <<x>>
    ELSE IF StrLess(SortKey(x), SortKey(Head(sorted)))
         THEN <<x>> \o sorted
         ELSE <<Head(sorted)>> \o InsertSorted(Tail(sorted), x)

\* a slip: the sort left out
list_sort_missing(s) == s

\* a slip: an unstable sort, x put before the elements of equal key
RECURSIVE InsertBeforeEqual(_, _)
InsertBeforeEqual(sorted, x) ==
    IF sorted = <<>> THEN <<x>>
    ELSE IF ~StrLess(SortKey(Head(sorted)), SortKey(x))
         THEN <<x>> \o sorted
         ELSE <<Head(sorted)>> \o InsertBeforeEqual(Tail(sorted), x)

RECURSIVE list_sort_unstable(_)
list_sort_unstable(s) ==
    IF s = <<>> THEN <<>>
    ELSE InsertBeforeEqual(list_sort_unstable(SubSeq(s, 1, Len(s) - 1)), s[Len(s)])

\* existing.sort(key=...): ascending by key, stable
RECURSIVE list_sort(_)
list_sort(s) ==
    IF s = <<>> THEN <<>>
    ELSE InsertSorted(list_sort(SubSeq(s, 1, Len(s) - 1)), s[Len(s)])

PyList(s) == [t |-> "list", v |-> s]

\* uplugin.get("Modules", [])
GetModules(u) == IF "Modules" \in DOMAIN u THEN u["Modules"] ELSE PyList(<<>>)

\* a slip: the manifest rebuilt with the Modules key alone
upsert_drops_other_fields(u, entries) ==
    LET existing == GetModules(u)
    IN  IF existing.t # "list"
        THEN [error |-> [type |-> "ValueError", module |-> "", field |-> "Modules"],
              uplugin |-> u]
        ELSE [error |-> NoError,
              uplugin |-> ("Modules" :> PyList(list_sort(
                   UpsertLoop(existing.v, IndexByName(existing.v, 1, <<>>), entries))))]

\* the whole call: [error, uplugin], uplugin being the manifest afterwards
upsert_uplugin_modules(u, entries) ==
    LET existing == GetModules(u)
    IN  IF existing.t # "list"
        THEN [error |-> [type |-> "ValueError", module |-> "", field |-> "Modules"],
              uplugin |-> u]
        ELSE LET by_name == IndexByName(existing.v, 1, <<>>)
                 upserted == UpsertLoop(existing.v, by_name, entries)
             IN  [error |-> NoError,
                  uplugin |-> ("Modules" :> PyList(list_sort(upserted))) @@ u]

(***************************************************************************)
(* The module-level inputs and the helpers of main.                        *)
(***************************************************************************)
DEFAULT_PUBLIC_DEPENDENCIES ==
    <<"Core", "CoreUObject", "Engine", "ISMRuntimeCore", "GameplayTags">>
DEFAULT_PRIVATE_DEPENDENCIES == <<>>

PyBool(b) == [t |-> "bool", v |-> b]
PyStr(x) == [t |-> "str", v |-> x]
PyInt(n) == [t |-> "int", v |-> n]
PyNone == [t |-> "NoneType", v |-> <<>>]
PyStrList(names) == PyList([p \in 1..Len(names) |-> PyStr(names[p])])

\* a slip: the suffix looked at before the flag
module_type_suffix_first(module_name, is_runtime) ==
    IF EndsWith(module_name, "Editor") THEN "Editor"
    ELSE IF is_runtime THEN "Runtime"
    ELSE "Developer"

_module_type(module_name, is_runtime) ==
    IF is_runtime THEN "Runtime"
    ELSE IF EndsWith(module_name, "Editor") THEN "Editor"
    ELSE "Developer"

\* whether _ensure_list_strings(value, ...) returns (it raises ValueError otherwise)
_ensure_list_strings(value) ==
    \/ value.t = "NoneType"
    \/ /\ value.t = "list"
       /\ \A p \in 1..Len(value.v) : value.v[p].t = "str"

ValidationError(name, field) == [type |-> "ValueError", module |-> name, field |-> field]

\* the checks of one table entry, in the order of the code: the first that
\* fails gives the error, NoError when all pass
ValidateEntry(name, entry) ==
    IF entry.t # "list" \/ Len(entry.v) # 4 THEN ValidationError(name, "entry")
    ELSE IF entry.v[1].t # "bool" THEN ValidationError(name, "IsRuntime")
    ELSE IF entry.v[2].t # "str" THEN ValidationError(name, "Description")
    ELSE IF ~_ensure_list_strings(entry.v[3])
         THEN ValidationError(name, "PublicDependencies")
    ELSE IF ~_ensure_list_strings(entry.v[4])
         THEN ValidationError(name, "PrivateDependencies")
    ELSE NoError

\* validate_definitions: the error of the first entry that fails, or NoError
RECURSIVE validate_definitions(_)
validate_definitions(table) ==
    IF table = <<>> THEN NoError
    ELSE LET e == ValidateEntry(Head(table)[1], Head(table)[2])
         IN  IF e # NoError THEN e ELSE validate_definitions(Tail(table))

\* list(deps) of a validated list[str], as plain strings
StrItems(value) == [p \in 1..Len(value.v) |-> value.v[p].v]

Indent == "                "

\* _format_cs_string_array: one line indent"x", per item, joined by newlines
RECURSIVE _format_cs_string_array(_)
_format_cs_string_array(items) ==
    IF items = <<>> THEN ""
    ELSE LET line == Indent \o "\"" \o Head(items) \o "\","
         IN  IF Len(items) = 1 THEN line
             ELSE line \o "\n" \o _format_cs_string_array(Tail(items))

\* TEMPLATE.format(...): the template with its placeholders' values
BuildCsText(module_name, public_deps, private_deps) ==
    [template |-> "BUILD_CS_TEMPLATE", ModuleName |-> module_name,
     PublicDeps |-> _format_cs_string_array(public_deps),
     PrivateDeps |-> _format_cs_string_array(private_deps)]
HeaderText(module_name) ==
    [template |-> "MODULE_HEADER_TEMPLATE", ModuleName |-> module_name]
CppText(module_name) ==
    [template |-> "MODULE_CPP_TEMPLATE", ModuleName |-> module_name]

build_cs_path(module_name) == <<module_name, module_name \o ".Build.cs">>
header_path(module_name) == <<module_name, "Public", module_name \o ".h">>
cpp_path(module_name) == <<module_name, "Private", module_name \o ".cpp">>

\* the k-th filesystem operation of write_module_files on fs = [dirs, files]:
\* the two mkdir(parents=True, exist_ok=True), then the three write_text
WriteStep(fs, k, module_name, public_deps, private_deps) ==
    CASE k = 1 -> [fs EXCEPT !.dirs = @ \cup {<<module_name>>, <<module_name, "Public">>}]
      [] k = 2 -> [fs EXCEPT !.dirs = @ \cup {<<module_name>>, <<module_name, "Private">>}]
      [] k = 3 -> [fs EXCEPT !.files = (build_cs_path(module_name)
                        :> BuildCsText(module_name, public_deps, private_deps)) @@ @]
      [] k = 4 -> [fs EXCEPT !.files = (header_path(module_name)
                        :> HeaderText(module_name)) @@ @]
      [] k = 5 -> [fs EXCEPT !.files = (cpp_path(module_name)
                        :> CppText(module_name)) @@ @]

\* write_module_files up to and including its n-th operation (all five when it
\* returns; fewer when the next one raised, which leaves what was done)
RECURSIVE write_module_files(_, _, _, _, _)
write_module_files(fs, n, module_name, public_deps, private_deps) ==
    IF n = 0 THEN fs
    ELSE WriteStep(write_module_files(fs, n - 1, module_name, public_deps, private_deps),
                   n, module_name, public_deps, private_deps)

\* a slip: the Description set whatever desc is
m_entry_always_description(module_name, is_runtime, desc) ==
    [Name |-> module_name, Type |-> _module_type(module_name, is_runtime),
     LoadingPhase |-> "Default", Description |-> desc]

\* the manifest entry main prepares for a module
m_entry(module_name, is_runtime, desc) ==
    LET base == [Name |-> module_name, Type |-> _module_type(module_name, is_runtime),
                 LoadingPhase |-> "Default"]
    IN  IF desc # "" THEN ("Description" :> desc) @@ base ELSE base

DiskJson(u) == [t |-> "json", v |-> u]
DiskCorrupt == [t |-> "corrupt", v |-> <<>>]
NoDisk == [t |-> "none", v |-> <<>>]

(***************************************************************************)
(* The inputs the specifications draw.                                     *)
(***************************************************************************)
DepNames == {"", "Core", "Engine"}

\* entries a manifest may hold already: without a Name, with an empty Name,
\* with fields this tool does not own, with fields it overwrites
ExistingEntries ==
    { [Foo |-> "bar"],
      [Name |-> ""],
      [Name |-> "B", Foo |-> "bar"],
      [Name |-> "B", Type |-> "Editor", Description |-> "old"],
      [Name |-> "C", Type |-> "Editor", LoadingPhase |-> "PreDefault"],
      [Name |-> "C"] }

\* new entries, of the shape main builds
NewEntries ==
    { [Name |-> "A", Type |-> "Runtime", LoadingPhase |-> "Default"],
      [Name |-> "B", Type |-> "Runtime", LoadingPhase |-> "Default"],
      [Name |-> "B", Type |-> "Developer", LoadingPhase |-> "Default",
       Description |-> "d"],
      [Name |-> "C", Type |-> "Runtime", LoadingPhase |-> "Default"],
      [Name |-> "", Type |-> "Developer", LoadingPhase |-> "Default"] }

\* the top-level fields of a manifest other than Modules
OtherFields == { [FriendlyName |-> "PCG"], [FriendlyName |-> "PCG", Version |-> "1"] }

UpsertManifests ==
    UNION { { ("Modules" :> PyList(m)) @@ o : m \in SeqsUpTo(ExistingEntries, MaxExisting) }
            \cup { o, ("Modules" :> [t |-> "dict", v |-> <<>>]) @@ o }
          : o \in OtherFields }

MainIdle ==
    /\ defs = <<>>
    /\ i = 0
    /\ source_exists = FALSE
    /\ disk_uplugin = NoDisk
    /\ dirs = {}
    /\ files = <<>>
    /\ run = "first"
    /\ start_disk_uplugin = NoDisk
    /\ start_files = <<>>
    /\ start_dirs = {}
    /\ manifest_writes = 0

MainVars == <<defs, i, source_exists, disk_uplugin, dirs, files, run,
              start_disk_uplugin, start_files, start_dirs, manifest_writes>>
MergeVars == <<defaults, specific, merged>>

(***************************************************************************)
(* SpecMerge: merged = _dedupe_preserve_order(defaults + specific), as     *)
(* main computes merged_public and merged_private.                         *)
(***************************************************************************)
InitMerge ==
    /\ pc = "merge_call"
    /\ defaults \in SeqsUpTo(DepNames, MaxDeps)
    /\ specific \in SeqsUpTo(DepNames, MaxDeps)
    /\ merged = <<>>
    /\ uplugin_in = <<>>
    /\ uplugin = <<>>
    /\ module_entries = <<>>
    /\ error = NoError
    /\ MainIdle

Merge ==
    /\ pc = "merge_call"
    /\ merged' = _dedupe_preserve_order(defaults \o specific)
    /\ pc' = "merge_returned"
    /\ UNCHANGED <<defaults, specific, uplugin_in, uplugin, module_entries, error, MainVars>>

NextMerge == Merge

SpecMerge == InitMerge /\ [][NextMerge]_vars

(***************************************************************************)
(* SpecUpsert: one call upsert_uplugin_modules(uplugin, module_entries).   *)
(***************************************************************************)
InitUpsert ==
    /\ pc = "upsert_call"
    /\ uplugin_in \in UpsertManifests
    /\ uplugin = uplugin_in
    /\ module_entries \in SeqsUpTo(NewEntries, MaxNew)
    /\ error = NoError
    /\ defaults = <<>>
    /\ specific = <<>>
    /\ merged = <<>>
    /\ MainIdle

UpsertCall ==
    /\ pc = "upsert_call"
    /\ LET r == upsert_uplugin_modules(uplugin, module_entries)
       IN  /\ uplugin' = r.uplugin
           /\ error' = r.error
           /\ pc' = IF r.error = NoError THEN "upsert_returned" ELSE "upsert_raised"
    /\ UNCHANGED <<uplugin_in, module_entries, MergeVars, MainVars>>

NextUpsert == UpsertCall

SpecUpsert == InitUpsert /\ [][NextUpsert]_vars

(***************************************************************************)
(* Spec: main().  The table, the manifest file and the source root are     *)
(* drawn; the source root starts without module directories.  A filesystem *)
(* operation may raise OSError; a write that raises is taken to leave the  *)
(* file as it was, except the manifest's, which open("w") has truncated.   *)
(***************************************************************************)
Entry(is_runtime, desc, pub, priv) ==
    PyList(<<PyBool(is_runtime), PyStr(desc), PyStrList(pub), PyStrList(priv)>>)

\* table entries <<name, entry>>: well-formed ones, and one for each way
\* validate_definitions and main treat an entry that is not
ModuleDefs ==
    { <<"A", Entry(TRUE, "", <<>>, <<>>)>>,
      <<"AEditor", Entry(FALSE, "d", <<"Core", "UnrealEd", "">>, <<"UMG", "UMG">>)>>,
      <<"AEditor", Entry(TRUE, "", <<>>, <<>>)>>,
      <<"Aeditor", Entry(FALSE, "", <<"A">>, <<>>)>>,
      <<"Editor", Entry(FALSE, "", <<>>, <<>>)>>,
      <<"B", [t |-> "tuple", v |-> Entry(TRUE, "", <<>>, <<>>).v]>>,
      <<"B", PyList(<<PyBool(TRUE), PyStr(""), PyStrList(<<>>)>>)>>,
      <<"B", PyList(<<PyInt(1), PyStr(""), PyStrList(<<>>), PyStrList(<<>>)>>)>>,
      <<"B", PyList(<<PyBool(TRUE), PyNone, PyStrList(<<>>), PyStrList(<<>>)>>)>>,
      <<"C", PyList(<<PyBool(TRUE), PyStr(""), PyStr("Core"), PyStrList(<<>>)>>)>>,
      <<"C", PyList(<<PyBool(TRUE), PyStr(""), PyStrList(<<>>), PyList(<<PyInt(1)>>)>>)>>,
      <<"C", PyList(<<PyBool(TRUE), PyStr(""), PyNone, PyStrList(<<>>)>>)>>,
      <<"B", PyList(<<PyBool(FALSE), PyStr("d"), PyStrList(<<>>), PyNone>>)>> }

\* a dict has each key once
DefinitionTables ==
    { t \in SeqsUpTo(ModuleDefs, MaxModules) :
          \A a, b \in 1..Len(t) : t[a][1] = t[b][1] => a = b }

ManifestEntries ==
    { [Name |-> "A", Type |-> "Editor", LoadingPhase |-> "PreDefault",
       Description |-> "old", Foo |-> "bar"],
      [Name |-> "AEditor", Type |-> "Runtime"],
      [Name |-> "B", Foo |-> "bar"],
      [Foo |-> "bar"] }

DiskManifests ==
    { DiskJson(("Modules" :> PyList(m)) @@ [FriendlyName |-> "PCG"])
          : m \in SeqsUpTo(ManifestEntries, MaxManifest) }
    \cup { DiskJson([FriendlyName |-> "PCG"]),
           DiskJson([FriendlyName |-> "PCG", Modules |-> [t |-> "dict", v |-> <<>>]]),
           DiskCorrupt, NoDisk }

Init ==
    /\ pc = "main_validate"
    /\ defs \in DefinitionTables
    /\ source_exists \in BOOLEAN
    /\ disk_uplugin \in DiskManifests
    /\ dirs = {}
    /\ files = <<>>
    /\ uplugin = <<>>
    /\ module_entries = <<>>
    /\ i = 0
    /\ error = NoError
    /\ run = "first"
    /\ start_disk_uplugin = disk_uplugin
    /\ start_files = files
    /\ start_dirs = dirs
    /\ manifest_writes = 0
    /\ uplugin_in = <<>>
    /\ defaults = <<>>
    /\ specific = <<>>
    /\ merged = <<>>

Raise(type) ==
    /\ pc' = "failed"
    /\ error' = [type |-> type, module |-> "", field |-> ""]

Frame == <<defs, source_exists, run, start_disk_uplugin, start_files,
           start_dirs, uplugin_in, MergeVars>>

\* validate_definitions(OUTPUT_MODULE_DEFINITIONS)
Validate ==
    /\ pc = "main_validate"
    /\ LET e == validate_definitions(defs)
       IN  IF e # NoError
           THEN pc' = "failed" /\ error' = e
           ELSE pc' = "main_paths" /\ error' = error
    /\ UNCHANGED <<uplugin, module_entries, i, disk_uplugin, dirs, files,
                   manifest_writes, Frame>>

\* the two exists() checks
CheckPaths ==
    /\ pc = "main_paths"
    /\ IF disk_uplugin = NoDisk \/ ~source_exists
       THEN Raise("FileNotFoundError")
       ELSE pc' = "main_load" /\ error' = error
    /\ UNCHANGED <<uplugin, module_entries, i, disk_uplugin, dirs, files,
                   manifest_writes, Frame>>

\* uplugin = load_uplugin(uplugin_path); module_entries_for_uplugin = []
LoadUplugin ==
    /\ pc = "main_load"
    /\ IF disk_uplugin.t # "json"
       THEN Raise("JSONDecodeError") /\ UNCHANGED <<uplugin, module_entries, i>>
       ELSE /\ uplugin' = disk_uplugin.v
            /\ module_entries' = <<>>
            /\ i' = 1
            /\ pc' = "main_loop"
            /\ error' = error
    /\ UNCHANGED <<disk_uplugin, dirs, files, manifest_writes, Frame>>

InLoop == pc = "main_loop" /\ i <= Len(defs)
module_name == defs[i][1]
is_runtime == defs[i][2].v[1].v
desc == defs[i][2].v[2].v
pub_deps == defs[i][2].v[3]
priv_deps == defs[i][2].v[4]
merged_public == _dedupe_preserve_order(DEFAULT_PUBLIC_DEPENDENCIES \o StrItems(pub_deps))
merged_private == _dedupe_preserve_order(DEFAULT_PRIVATE_DEPENDENCIES \o StrItems(priv_deps))

\* list(pub_deps) or list(priv_deps) of None: TypeError, before the module's
\* files are written
LoopTypeError ==
    /\ InLoop
    /\ pub_deps.t = "NoneType" \/ priv_deps.t = "NoneType"
    /\ Raise("TypeError")
    /\ UNCHANGED <<uplugin, module_entries, i, disk_uplugin, dirs, files,
                   manifest_writes, Frame>>

\* write_module_files raises at its (n+1)-th filesystem operation
LoopWriteFails ==
    /\ InLoop
    /\ pub_deps.t # "NoneType" /\ priv_deps.t # "NoneType"
    /\ \E n \in 0..4 :
           LET fs == write_module_files([dirs |-> dirs, files |-> files], n,
                                        module_name, merged_public, merged_private)
           IN  dirs' = fs.dirs /\ files' = fs.files
    /\ Raise("OSError")
    /\ UNCHANGED <<uplugin, module_entries, i, disk_uplugin, manifest_writes, Frame>>

\* a slip: the manifest upserted and saved in every iteration
LoopSavesManifest ==
    /\ InLoop
    /\ pub_deps.t # "NoneType" /\ priv_deps.t # "NoneType"
    /\ LET fs == write_module_files([dirs |-> dirs, files |-> files], 5,
                                    module_name, merged_public, merged_private)
       IN  dirs' = fs.dirs /\ files' = fs.files
    /\ module_entries' = Append(module_entries, m_entry(module_name, is_runtime, desc))
    /\ LET r == upsert_uplugin_modules(uplugin, module_entries')
       IN  /\ uplugin' = r.uplugin
           /\ disk_uplugin' = DiskJson(r.uplugin)
           /\ manifest_writes' = manifest_writes + 1
    /\ i' = i + 1
    /\ UNCHANGED <<pc, error, Frame>>

\* one iteration of the loop: merge the dependencies, write the files, prepare
\* the manifest entry
LoopWriteOk ==
    /\ InLoop
    /\ pub_deps.t # "NoneType" /\ priv_deps.t # "NoneType"
    /\ LET fs == write_module_files([dirs |-> dirs, files |-> files], 5,
                                    module_name, merged_public, merged_private)
       IN  dirs' = fs.dirs /\ files' = fs.files
    /\ module_entries' = Append(module_entries, m_entry(module_name, is_runtime, desc))
    /\ i' = i + 1
    /\ UNCHANGED <<pc, error, uplugin, disk_uplugin, manifest_writes, Frame>>

\* upsert_uplugin_modules(uplugin, module_entries_for_uplugin), after the loop
Upsert ==
    /\ pc = "main_loop" /\ i > Len(defs)
    /\ LET r == upsert_uplugin_modules(uplugin, module_entries)
       IN  /\ uplugin' = r.uplugin
           /\ error' = r.error
           /\ pc' = IF r.error = NoError THEN "main_save" ELSE "failed"
    /\ UNCHANGED <<module_entries, i, disk_uplugin, dirs, files, manifest_writes, Frame>>

\* save_uplugin(uplugin_path, uplugin) returns
SaveOk ==
    /\ pc = "main_save"
    /\ disk_uplugin' = DiskJson(uplugin)
    /\ manifest_writes' = manifest_writes + 1
    /\ pc' = "done"
    /\ UNCHANGED <<error, uplugin, module_entries, i, dirs, files, Frame>>

\* save_uplugin raises in open("w"), the file untouched
SaveOpenFails ==
    /\ pc = "main_save"
    /\ Raise("OSError")
    /\ UNCHANGED <<uplugin, module_entries, i, disk_uplugin, dirs, files,
                   manifest_writes, Frame>>

\* save_uplugin raises while writing, the file truncated by open("w")
SaveWriteFails ==
    /\ pc = "main_save"
    /\ disk_uplugin' = DiskCorrupt
    /\ manifest_writes' = manifest_writes + 1
    /\ Raise("OSError")
    /\ UNCHANGED <<uplugin, module_entries, i, dirs, files, Frame>>

\* after a run that succeeded the tool is run again, with the same table, on
\* the disk that run left
RunAgain ==
    /\ pc = "done"
    /\ run = "first"
    /\ run' = "second"
    /\ pc' = "main_validate"
    /\ error' = NoError
    /\ uplugin' = <<>>
    /\ module_entries' = <<>>
    /\ i' = 0
    /\ start_disk_uplugin' = disk_uplugin
    /\ start_files' = files
    /\ start_dirs' = dirs
    /\ manifest_writes' = 0
    /\ UNCHANGED <<defs, source_exists, disk_uplugin, dirs, files, uplugin_in, MergeVars>>

Next ==
    \/ Validate
    \/ CheckPaths
    \/ LoadUplugin
    \/ LoopTypeError
    \/ LoopWriteFails
    \/ LoopWriteOk
    \/ Upsert
    \/ SaveOk
    \/ SaveOpenFails
    \/ SaveWriteFails
    \/ RunAgain

Spec == Init /\ [][Next]_vars

(***************************************************************************)
(* Vocabulary of the properties.                                           *)
(***************************************************************************)
Elems(s) == { s[p] : p \in 1..Len(s) }
Named(s) == { p \in 1..Len(s) : "Name" \in DOMAIN s[p] }
NamesOf(s) == { s[p]["Name"] : p \in Named(s) }
WithName(s, n) == { p \in Named(s) : s[p]["Name"] = n }
CountName(s, n) == Cardinality(WithName(s, n))
Count(s, e) == Cardinality({ p \in 1..Len(s) : s[p] = e })
LastWithName(s, n) == s[CHOOSE p \in WithName(s, n) : \A q \in WithName(s, n) : q <= p]
FirstIndex(s, x) == CHOOSE p \in 1..Len(s) : s[p] = x /\ \A q \in 1..(p - 1) : s[q] # x
NoRepeatedName(s) == \A n \in NamesOf(s) : CountName(s, n) = 1
WithKey(s, k) == LET HasKey(x) == SortKey(x) = k IN SelectSeq(s, HasKey)
ModulesIn == GetModules(uplugin_in).v
ModulesOut == uplugin["Modules"].v

(***************************************************************************)
(* C6: the dependency merge returns the non-empty names of defaults        *)
(* followed by specific, each once, in the order of first occurrence: no   *)
(* duplicate, no empty entry, every non-empty input name, and merging the  *)
(* result again returns it unchanged.                                      *)
(***************************************************************************)
C6_MergeIsOrderedDedupe ==
    pc = "merge_returned" =>
        LET c == defaults \o specific
        IN  /\ \A a, b \in 1..Len(merged) : merged[a] = merged[b] => a = b
            /\ "" \notin Elems(merged)
            /\ Elems(merged) = (Elems(c) \ {""})
            /\ \A a, b \in 1..Len(merged) :
                   a < b => FirstIndex(c, merged[a]) < FirstIndex(c, merged[b])
            /\ _dedupe_preserve_order(merged) = merged

C6_Witness ==
    /\ pc = "merge_returned"
    /\ "" \in Elems(specific)
    /\ (Elems(defaults) \cap Elems(specific)) \ {""} # {}
    /\ Len(merged) >= 2
    /\ Len(merged) < Len(defaults \o specific) - 1

(***************************************************************************)
(* C1, as stated: after upsert returns, the Modules array holds exactly    *)
(* one entry per distinct name of the existing array or of newEntries.     *)
(***************************************************************************)
C1_ExactlyOnePerName ==
    pc = "upsert_returned" =>
        \A n \in NamesOf(ModulesIn) \cup NamesOf(module_entries) :
            CountName(ModulesOut, n) = 1

(***************************************************************************)
(* C1, amended: after upsert returns the names of the Modules array are    *)
(* those of the existing array and of newEntries; a name of the existing   *)
(* array keeps the number of entries it had, a name of newEntries alone    *)
(* gets one entry per new entry of that name; so there is exactly one      *)
(* entry per name when neither the existing array nor newEntries repeats a *)
(* name.                                                                   *)
(***************************************************************************)
C1_EntriesPerName ==
    pc = "upsert_returned" =>
        /\ NamesOf(ModulesOut) = NamesOf(ModulesIn) \cup NamesOf(module_entries)
        /\ \A n \in NamesOf(ModulesOut) :
               CountName(ModulesOut, n) =
                   IF n \in NamesOf(ModulesIn) THEN CountName(ModulesIn, n)
                   ELSE CountName(module_entries, n)
        /\ (NoRepeatedName(ModulesIn) /\ NoRepeatedName(module_entries))
               => NoRepeatedName(ModulesOut)

C1_Witness ==
    /\ pc = "upsert_returned"
    /\ NoRepeatedName(ModulesIn) /\ NoRepeatedName(module_entries)
    /\ NamesOf(ModulesIn) \cap NamesOf(module_entries) # {}
    /\ NamesOf(module_entries) \ NamesOf(ModulesIn) # {}
    /\ NamesOf(ModulesIn) \ NamesOf(module_entries) # {}

(***************************************************************************)
(* C2, as stated: for every new entry whose Name is that of an existing    *)
(* entry, the last existing entry of that Name afterwards holds the new    *)
(* entry's value for every key of the new entry, and for every other key   *)
(* exactly what it held before the upsert.                                 *)
(***************************************************************************)
C2_EveryNewEntryMerged ==
    pc = "upsert_returned" =>
        \A j \in 1..Len(module_entries) :
            LET new_m == module_entries[j]
                n == new_m["Name"]
            IN  n \in NamesOf(ModulesIn) =>
                    LET before == LastWithName(ModulesIn, n)
                        after  == LastWithName(ModulesOut, n)
                    IN  /\ DOMAIN after = DOMAIN before \cup DOMAIN new_m
                        /\ \A k \in DOMAIN new_m : after[k] = new_m[k]
                        /\ \A k \in DOMAIN before \ DOMAIN new_m : after[k] = before[k]

(***************************************************************************)
(* C2, amended: for every Name that an existing entry and new entries      *)
(* share, the new entries of that Name are merged in their order into the  *)
(* last existing entry of that Name: afterwards it holds, for every key,   *)
(* the value of the last new entry of that Name that has the key, and for  *)
(* a key none of them has exactly the value it held before; no key is      *)
(* removed.  With one new entry of the Name this is the claim as stated.   *)
(***************************************************************************)
C2_MergedFieldByField ==
    pc = "upsert_returned" =>
        \A n \in NamesOf(ModulesIn) \cap NamesOf(module_entries) :
            LET before == LastWithName(ModulesIn, n)
                after  == LastWithName(ModulesOut, n)
                news   == WithName(module_entries, n)
                Having(k) == { j \in news : k \in DOMAIN module_entries[j] }
                newKeys == UNION { DOMAIN module_entries[j] : j \in news }
            IN  /\ DOMAIN after = DOMAIN before \cup newKeys
                /\ \A k \in newKeys :
                       after[k] = module_entries[CHOOSE j \in Having(k) :
                                                    \A q \in Having(k) : q <= j][k]
                /\ \A k \in DOMAIN before \ newKeys : after[k] = before[k]
                /\ Cardinality(news) = 1 =>
                       \A j \in news : \A k \in DOMAIN module_entries[j] :
                           after[k] = module_entries[j][k]

C2_Witness ==
    /\ pc = "upsert_returned"
    /\ \E n \in NamesOf(ModulesIn) \cap NamesOf(module_entries) :
           /\ CountName(module_entries, n) = 1
           /\ CountName(ModulesIn, n) = 2
           /\ LET before == LastWithName(ModulesIn, n)
                  after  == LastWithName(ModulesOut, n)
              IN  /\ "Foo" \in DOMAIN before
                  /\ after # before
                  /\ after["Foo"] = before["Foo"]

(***************************************************************************)
(* C3: after upsert every new entry whose Name the existing manifest does  *)
(* not have is in the Modules array, and the array is sorted ascending by  *)
(* Name (no Name counting as the empty string), entries of equal key in    *)
(* the order they had before the sort.                                     *)
(***************************************************************************)
C3_AppendedAndSorted ==
    pc = "upsert_returned" =>
        LET unsorted == UpsertLoop(ModulesIn, IndexByName(ModulesIn, 1, <<>>),
                                   module_entries)
        IN  /\ \A j \in 1..Len(module_entries) :
                   module_entries[j]["Name"] \notin NamesOf(ModulesIn)
                       => Count(ModulesOut, module_entries[j])
                              >= Count(module_entries, module_entries[j])
            /\ \A a, b \in 1..Len(ModulesOut) :
                   a < b => ~StrLess(SortKey(ModulesOut[b]), SortKey(ModulesOut[a]))
            /\ \A k \in NamesOf(ModulesOut) \cup {""} :
                   WithKey(ModulesOut, k) = WithKey(unsorted, k)

C3_Witness ==
    /\ pc = "upsert_returned"
    /\ ModulesIn = << [Name |-> "C"], [Name |-> ""], [Foo |-> "bar"] >>
    /\ Len(module_entries) = 2
    /\ module_entries[1]["Name"] = "C"
    /\ module_entries[2]["Name"] = "A"
    /\ ModulesOut[3]["Name"] = "A"
    /\ ModulesOut[1] = [Name |-> ""]
    /\ ModulesOut[2] = [Foo |-> "bar"]

(***************************************************************************)
(* C10: upsert leaves every top-level field other than Modules as it was,  *)
(* keeps every existing entry that has no Name or whose Name no new entry  *)
(* has, with all its fields, and removes no entry.                         *)
(***************************************************************************)
C10_NothingElseChanges ==
    pc = "upsert_returned" =>
        /\ DOMAIN uplugin \ {"Modules"} = DOMAIN uplugin_in \ {"Modules"}
        /\ \A k \in DOMAIN uplugin_in \ {"Modules"} : uplugin[k] = uplugin_in[k]
        /\ \A p \in 1..Len(ModulesIn) :
               SortKey(ModulesIn[p]) \notin NamesOf(module_entries)
                   \/ "Name" \notin DOMAIN ModulesIn[p]
                   => Count(ModulesOut, ModulesIn[p]) >= Count(ModulesIn, ModulesIn[p])
        /\ Len(ModulesOut) =
               Len(ModulesIn) + Cardinality({ j \in 1..Len(module_entries) :
                   module_entries[j]["Name"] \notin NamesOf(ModulesIn) })

C10_Witness ==
    /\ pc = "upsert_returned"
    /\ "Version" \in DOMAIN uplugin_in
    /\ [Foo |-> "bar"] \in Elems(ModulesIn)
    /\ [Name |-> "B", Foo |-> "bar"] \in Elems(ModulesIn)
    /\ "" \in NamesOf(module_entries)
    /\ "C" \in NamesOf(module_entries) \cap NamesOf(ModulesIn)
    /\ "B" \notin NamesOf(module_entries)
    /\ ModulesOut # ModulesIn

(***************************************************************************)
(* Vocabulary of the properties of main.                                   *)
(***************************************************************************)
StartModules == GetModules(start_disk_uplugin.v).v
FinalModules == disk_uplugin.v["Modules"].v
TableNames == { defs[k][1] : k \in 1..Len(defs) }
HasFile(path, text) == path \in DOMAIN files /\ files[path] = text
\* the three files of the k-th module, with the text main renders for it
FilesWritten(k) ==
    LET n == defs[k][1]
        pub == _dedupe_preserve_order(DEFAULT_PUBLIC_DEPENDENCIES \o StrItems(defs[k][2].v[3]))
        priv == _dedupe_preserve_order(DEFAULT_PRIVATE_DEPENDENCIES \o StrItems(defs[k][2].v[4]))
    IN  /\ {<<n>>, <<n, "Public">>, <<n, "Private">>} \subseteq dirs
        /\ HasFile(build_cs_path(n), BuildCsText(n, pub, priv))
        /\ HasFile(header_path(n), HeaderText(n))
        /\ HasFile(cpp_path(n), CppText(n))

(***************************************************************************)
(* C4: a second run with the same table on the disk a successful first run *)
(* left is idempotent: when it has succeeded too, every generated file and *)
(* the manifest (entries, fields, order) are as the first run left them.   *)
(***************************************************************************)
C4_SecondRunChangesNothing ==
    (run = "second" /\ pc = "done") =>
        /\ files = start_files
        /\ dirs = start_dirs
        /\ disk_uplugin = start_disk_uplugin

C4_Witness ==
    /\ run = "second" /\ pc = "done"
    /\ Len(defs) = 2
    /\ Len(FinalModules) >= 3
    /\ \E p \in 1..Len(FinalModules) :
           /\ "Foo" \in DOMAIN FinalModules[p]
           /\ "Name" \in DOMAIN FinalModules[p]
           /\ FinalModules[p]["Name"] \in TableNames
    /\ "Aeditor" \in TableNames

(***************************************************************************)
(* C5, as stated: when some entry of the table violates the validation     *)
(* contract (not a list of four fields, isRuntime not a bool, description  *)
(* not a str, a dependency field that is not a list of str: a single       *)
(* string, or None), the run fails with a validation error naming a        *)
(* violating module, and no directory, file or manifest is written.        *)
(***************************************************************************)
IsStrList(value) ==
    value.t = "list" /\ \A p \in 1..Len(value.v) : value.v[p].t = "str"
ViolatesContract(entry) ==
    \/ entry.t # "list"
    \/ Len(entry.v) # 4
    \/ entry.v[1].t # "bool"
    \/ entry.v[2].t # "str"
    \/ ~IsStrList(entry.v[3])
    \/ ~IsStrList(entry.v[4])
C5_InvalidTableFailsFast ==
    (\E k \in 1..Len(defs) : ViolatesContract(defs[k][2])) =>
        /\ pc \in {"main_validate", "failed"}
        /\ pc = "failed" =>
               /\ error.type = "ValueError"
               /\ \E k \in 1..Len(defs) :
                      ViolatesContract(defs[k][2]) /\ error.module = defs[k][1]
        /\ files = start_files
        /\ dirs = start_dirs
        /\ disk_uplugin = start_disk_uplugin

(***************************************************************************)
(* C7: in every run the manifest file is written at most once, and only    *)
(* after the files of every module were written and the upsert succeeded;  *)
(* until then the manifest file is as it was when the run started, and a   *)
(* run that failed in the loop or later leaves the files of the modules    *)
(* processed before the failure on disk.                                   *)
(***************************************************************************)
C7_ManifestWrittenOnceAtTheEnd ==
    /\ manifest_writes <= 1
    /\ manifest_writes = 0 => disk_uplugin = start_disk_uplugin
    /\ manifest_writes = 1 =>
           /\ pc \in {"done", "failed"}
           /\ i = Len(defs) + 1
           /\ \A k \in 1..Len(defs) : FilesWritten(k)
           /\ Len(module_entries) = Len(defs)
           /\ uplugin = upsert_uplugin_modules(start_disk_uplugin.v, module_entries).uplugin
           /\ uplugin["Modules"].t = "list"
    /\ pc = "done" => manifest_writes = 1 /\ disk_uplugin = DiskJson(uplugin)
    /\ (pc = "failed" /\ i >= 1) => \A k \in 1..(i - 1) : FilesWritten(k)

C7_Witness ==
    /\ pc = "failed"
    /\ error.type = "OSError"
    /\ Len(defs) = 2
    /\ i = 2
    /\ FilesWritten(1)
    /\ build_cs_path(defs[2][1]) \in DOMAIN files
    /\ header_path(defs[2][1]) \notin DOMAIN files
    /\ manifest_writes = 0
    /\ disk_uplugin.t = "json"

(***************************************************************************)
(* C8, as stated: after a successful run the manifest entry of a module    *)
(* whose description is empty has no Description, whatever the manifest    *)
(* held for that name before the run.                                      *)
(***************************************************************************)
C8_NoDescriptionWhenEmpty ==
    pc = "done" =>
        \A k \in 1..Len(defs) :
            LET e == LastWithName(FinalModules, defs[k][1])
            IN  "Description" \in DOMAIN e => defs[k][2].v[2].v # ""

(***************************************************************************)
(* C8, amended: after a successful run the (last) manifest entry of a      *)
(* module's name has the module's description as its Description when the  *)
(* description is non-empty; when it is empty the tool sets none, and the  *)
(* entry has a Description only if the (last) entry of that name had one   *)
(* before the run, with the value it had then.                             *)
(***************************************************************************)
C8_DescriptionSetOrKept ==
    pc = "done" =>
        \A k \in 1..Len(defs) :
            LET n == defs[k][1]
                d == defs[k][2].v[2].v
                e == LastWithName(FinalModules, n)
                had == /\ n \in NamesOf(StartModules)
                       /\ "Description" \in DOMAIN LastWithName(StartModules, n)
            IN  /\ d # "" => "Description" \in DOMAIN e /\ e["Description"] = d
                /\ (d = "" /\ ~had) => "Description" \notin DOMAIN e
                /\ (d = "" /\ had) =>
                       /\ "Description" \in DOMAIN e
                       /\ e["Description"] = LastWithName(StartModules, n)["Description"]

C8_Witness ==
    /\ pc = "done"
    /\ run = "first"
    /\ Len(defs) = 2
    /\ \E k \in 1..2 :
           /\ defs[k][2].v[2].v = ""
           /\ defs[k][1] \in NamesOf(StartModules)
           /\ "Description" \in DOMAIN LastWithName(StartModules, defs[k][1])
    /\ \E k \in 1..2 :
           /\ defs[k][2].v[2].v # ""
           /\ defs[k][1] \in NamesOf(StartModules)
    /\ "Description" \in DOMAIN LastWithName(FinalModules, "A")

(***************************************************************************)
(* C9: the Type main derives is Runtime when isRuntime is true, Editor     *)
(* when it is false and the name is some prefix followed by "Editor", and  *)
(* Developer otherwise; after a successful run the (last) manifest entry   *)
(* of each module's name carries that Type and LoadingPhase "Default",     *)
(* whatever these two fields held before.                                  *)
(***************************************************************************)
DerivedType(name, flag) ==
    IF flag THEN "Runtime"
    ELSE IF \E k \in 0..Len(Chars(name)) :
                Chars(name) = SubSeq(Chars(name), 1, k) \o <<"E", "d", "i", "t", "o", "r">>
         THEN "Editor"
    ELSE "Developer"
C9_TypeAndLoadingPhase ==
    pc = "done" =>
        \A k \in 1..Len(defs) :
            LET e == LastWithName(FinalModules, defs[k][1])
            IN  /\ e["Type"] = DerivedType(defs[k][1], defs[k][2].v[1].v)
                /\ e["LoadingPhase"] = "Default"

C9_Witness ==
    /\ pc = "done"
    /\ run = "first"
    /\ Len(defs) = 2
    /\ \E k \in 1..2 : defs[k] = <<"AEditor", Entry(TRUE, "", <<>>, <<>>)>>
    /\ \E k \in 1..2 : defs[k][1] = "A"
    /\ NamesOf(StartModules) = {"A", "AEditor"}
    /\ LastWithName(StartModules, "A")["Type"] = "Editor"
    /\ LastWithName(StartModules, "A")["LoadingPhase"] = "PreDefault"
    /\ LastWithName(FinalModules, "A")["Type"] = "Runtime"

====
